---- MODULE Spec2Model ----
(***************************************************************************)
(* Leave-balance ledger engine of the Leave-Management-System (app.py).    *)
(*                                                                         *)
(* Units: accrual rates are kept in thousandths of a day (1500 = 1.5),     *)
(* ledger amounts in hundredths of a day (150 = 1.50), so that the         *)
(* round(x, 2) of the code is a real conversion.  Dates are records        *)
(* [y, m, d]; a period is the pair <<year, month>> that strftime("%Y-%m")  *)
(* prints.  Each worker is one request thread with its own SQLAlchemy      *)
(* session; the ledger is the committed content of the transactions table. *)
(***************************************************************************)
EXTENDS Integers, Sequences, FiniteSets, TLC

\* ---------------------------------------------------------------- bounds
MaxTicks == 5          \* half-month clock steps after StartDate
MaxPromotions == 1     \* accepted promote requests in one behaviour
MaxOverrides == 1      \* manual balance corrections in one behaviour
MaxLeaves == 1         \* leave records of one employee at one time
MaxDeletes == 1        \* leave deletions in one behaviour

Emps == {1, 2}
\* the employee that is promoted, removed and edited
Staff == {1}
Workers == {1, 2}
\* the thread that serves the requests when they come one after the other
SeqWorkers == {1}

NoDate == [y |-> 0, m |-> 0, d |-> 0]
NoPeriod == <<0, 0>>
NoBal == -99999
ErrBal == -88888

StartDate == [y |-> 2023, m |-> 12, d |-> 1]

\* ----------------------------------------------------------------- dates
DateLT(a, b) ==
    \/ a.y < b.y
    \/ a.y = b.y /\ a.m < b.m
    \/ a.y = b.y /\ a.m = b.m /\ a.d < b.d

DateLE(a, b) == a = b \/ DateLT(a, b)

\* date.replace(day=1)
MonthStart(dte) == [dte EXCEPT !.d = 1]

\* "increment month": December rolls over to January of the next year
NextMonth(cur) ==
    IF cur.m = 12 THEN [cur EXCEPT !.y = cur.y + 1, !.m = 1]
    ELSE [cur EXCEPT !.m = cur.m + 1]

\* cur.strftime("%Y-%m")
PeriodOf(cur) == <<cur.y, cur.m>>

\* left_date <= month_end, month_end = first day of the next month - 1 day
LeftByMonthEnd(left, cur) == DateLT(left, NextMonth(cur))

MonthIdx(dte) == dte.y * 12 + (dte.m - 1)

PeriodIdx(p) == p[1] * 12 + (p[2] - 1)

ClockIndex(dte) ==
    (MonthIdx(dte) - MonthIdx(StartDate)) * 2 + (IF dte.d = 1 THEN 0 ELSE 1)

NextClock(dte) ==
    IF dte.d = 1 THEN [dte EXCEPT !.d = 15] ELSE NextMonth(MonthStart(dte))

\* --------------------------------------------------------------- amounts
\* round(float(x), 2) of a value given in thousandths, result in hundredths
\* (inputs never sit exactly on a half)
Round2(x) == IF x >= 0 THEN (x + 5) \div 10 ELSE -((-x + 5) \div 10)

RECURSIVE SumAmounts(_)
SumAmounts(S) ==
    IF S = {} THEN 0
    ELSE LET t == CHOOSE x \in S : TRUE
         IN t.amount + SumAmounts(S \ {t})

MaxId(S) ==
    IF S = {} THEN 0
    ELSE CHOOSE i \in {t.id : t \in S} : \A t \in S : t.id <= i

VARIABLES today, emp, ledger, leaves, dblock, pc, loc, sess, fresh, rt

vars == <<today, emp, ledger, leaves, dblock, pc, loc, sess, fresh, rt>>

\* fresh is a history variable: the employee whose last request was a
\* completed accrual catch-up, with no date change, removal, edit or promotion
\* since (0 when there is none)

\* leaves is the committed content of the leave_entries table.

\* rt is a history variable: the employee e of Staff whose accruals a
\* completed request has brought up to date on the current date, the balance val that
\* the requests completed since then should have left, the kind src of the
\* last of them, and, while one leave recorded since then exists, its id,
\* the balance base from before it and whether it was edited from one paid
\* day-count to another (n = 1)
NoRT == [e |-> 0, src |-> "none", base |-> 0, id |-> 0, val |-> 0, n |-> 0]

NoLeave == [id |-> 0, emp |-> 0, days |-> 0, lt |-> 0]

\* ------------------------------------------------------------ the session
EmptySess == [adds |-> {}, dels |-> {}]

\* what a query issued by worker w sees: the committed table, minus the
\* rows its session deleted, plus the rows its session inserted
View(w) == {t \in ledger : t.id \notin sess[w].dels} \cup sess[w].adds

AccrualsOf(S, e) == {t \in S : t.emp = e /\ t.type = "ACCRUAL"}

TxOf(S, e) == {t \in S : t.emp = e}

IdleLoc ==
    [op |-> "none", e |-> 0, today |-> NoDate, cur |-> NoDate,
     last |-> NoDate, left |-> NoDate, rate |-> 0, hire |-> NoDate,
     status |-> "active", old |-> 0, new |-> 0, pdate |-> NoDate,
     eff |-> NoDate, manual |-> NoBal, pend |-> FALSE,
     failed |-> "no", res |-> NoBal, base |-> 0, n0 |-> 0, again |-> FALSE,
     pre |-> {}, lpre |-> {}, le |-> NoLeave, trip |-> NoRT,
     dfrom |-> NoDate, dto |-> NoDate, role |-> "none"]

\* the employee table as the session of worker w will commit it: the edits
\* edit_employee made to the loaded Employee object, or the Employee the
\* import added and flushed, are pending until then
PendingEmp(w) ==
    IF loc[w].pend
    THEN [emp EXCEPT ![loc[w].e].accrual_rate = loc[w].rate,
                     ![loc[w].e].status = loc[w].status,
                     ![loc[w].e].hire_date = loc[w].hire]
    ELSE emp

\* ------------------------------------------------------- is_employee_left
is_employee_left(er, ref_date) ==
    \/ er.status = "left"
    \/ er.left_date # NoDate /\ DateLE(er.left_date, ref_date)

\* ------------------------------------ apply_missing_accruals_for_employee
\* mutant of EffectiveLeft: the status is not looked at
EffectiveLeft_DateOnly(er, tdy) == er.left_date

\* effective left date: left_date, or today when status is left without one
EffectiveLeft(er, tdy) ==
    IF er.left_date # NoDate THEN er.left_date
    ELSE IF er.status = "left" THEN tdy
    ELSE NoDate

\* mutant of DepartureStop: only the inner test (left before the month
\* started) stops the walk
DepartureStop_OnlyBefore(left, cur) ==
    left # NoDate /\ DateLT(left, cur)

\* the two nested tests of the loop, both of which break
DepartureStop(left, cur) ==
    left # NoDate /\ LeftByMonthEnd(left, cur)

\* the loop condition: cur <= last_month, last_month = today.replace(day=1)
WalkContinues(cur, last) == DateLE(cur, last)

\* mutant of AccrualExists: the existence test is lost
AccrualExists_Never(S, e, period) == FALSE

\* Transaction.query.filter_by(employee_id, type="ACCRUAL", period).first()
AccrualExists(S, e, period) ==
    \E t \in AccrualsOf(S, e) : t.period = period

AccrualRow(S, e, period, rate) ==
    [id |-> MaxId(S) + 1, emp |-> e, type |-> "ACCRUAL", period |-> period,
     amount |-> Round2(rate), ref |-> 0]

\* entry of apply_missing_accruals_for_employee, as called by compute_balance
StartCatchUp(w, e, er, op, manual) ==
    /\ loc' = [loc EXCEPT ![w] =
                 [@ EXCEPT !.op = op, !.e = e, !.today = today,
                           !.manual = manual,
                           !.pend = (op \in {"edit", "import"}),
                           !.hire = er.hire_date,
                           !.cur = MonthStart(er.hire_date),
                           !.last = MonthStart(today),
                           !.left = EffectiveLeft(er, today),
                           !.rate = er.accrual_rate,
                           !.status = er.status,
                           !.base = SumAmounts(TxOf(View(w), e)),
                           !.n0 = Cardinality(AccrualsOf(View(w), e)),
                           !.again = (op = "balance" /\ fresh = e),
                           !.trip = IF rt.e = e THEN rt ELSE NoRT,
                           !.pre = ledger]]
    /\ pc' = [pc EXCEPT ![w] = IF er.hire_date = NoDate THEN "sum" ELSE "walk"]

\* a balance lookup (employee_detail, check_balance, ...) starts
BalanceBegin(w, e) ==
    /\ pc[w] = "idle"
    /\ StartCatchUp(w, e, emp[e], "balance", NoBal)
    /\ UNCHANGED <<leaves, today, emp, ledger, dblock, sess, fresh, rt>>

\* one turn of the month walk up to the existence query
WalkCheck(w) ==
    /\ pc[w] = "walk"
    /\ LET l == loc[w] IN
         IF ~WalkContinues(l.cur, l.last) \/ DepartureStop(l.left, l.cur)
         THEN /\ pc' = [pc EXCEPT ![w] = "commit"]
              /\ loc' = loc
         ELSE IF AccrualExists(View(w), l.e, PeriodOf(l.cur))
         THEN /\ pc' = pc
              /\ loc' = [loc EXCEPT ![w].cur = NextMonth(l.cur)]
         ELSE /\ pc' = [pc EXCEPT ![w] = "insert"]
              /\ loc' = loc
    /\ UNCHANGED <<leaves, today, emp, ledger, dblock, sess, fresh, rt>>

\* db.session.add(t) and the flush that sends the INSERT; SQLite admits one
\* writer at a time, so the INSERT waits while another session holds the
\* write lock
WalkInsert(w) ==
    /\ pc[w] = "insert"
    /\ dblock \in {0, w}
    /\ LET l == loc[w] IN
         /\ sess' = [sess EXCEPT ![w].adds =
                       @ \cup {AccrualRow(View(w), l.e, PeriodOf(l.cur), l.rate)}]
         /\ loc' = [loc EXCEPT ![w].cur = NextMonth(l.cur)]
    /\ dblock' = w
    /\ pc' = [pc EXCEPT ![w] = "walk"]
    /\ UNCHANGED <<leaves, today, emp, ledger, fresh, rt>>

\* db.session.commit() at the end of the walk
CatchUpCommit(w) ==
    /\ pc[w] = "commit"
    /\ sess[w] = EmptySess \/ dblock \in {0, w}
    /\ ledger' = View(w)
    /\ emp' = PendingEmp(w)
    /\ loc' = [loc EXCEPT ![w].pend = FALSE]
    /\ sess' = [sess EXCEPT ![w] = EmptySess]
    /\ dblock' = IF dblock = w THEN 0 ELSE dblock
    /\ pc' = [pc EXCEPT ![w] = "sum"]
    /\ UNCHANGED <<leaves, today, rt>>
    /\ fresh' = IF loc[w].op = "balance" THEN loc[w].e ELSE fresh

\* commit raises: db.session.rollback(), then the exception is re-raised and
\* swallowed by compute_balance
CatchUpCommitFail(w) ==
    /\ pc[w] = "commit"
    /\ sess' = [sess EXCEPT ![w] = EmptySess]
    /\ dblock' = IF dblock = w THEN 0 ELSE dblock
    /\ loc' = [loc EXCEPT ![w].failed = "commit", ![w].pend = FALSE]
    /\ pc' = [pc EXCEPT ![w] = "sum"]
    /\ UNCHANGED <<leaves, today, emp, ledger, fresh, rt>>

\* an exception inside the loop (raised by the existence query or by the
\* flush it triggers) leaves the function without a rollback.  After a
\* failed flush the session has dropped its transaction and refuses further
\* queries until rollback() is called; after a failed query the rows added
\* so far stay in the session.
WalkFail(w) ==
    /\ pc[w] = "walk"
    /\ \/ /\ sess[w].adds # {}
          /\ sess' = [sess EXCEPT ![w] = EmptySess]
          /\ dblock' = IF dblock = w THEN 0 ELSE dblock
          /\ loc' = [loc EXCEPT ![w].failed = "flush", ![w].pend = FALSE]
       \/ /\ loc' = [loc EXCEPT ![w].failed = "query"]
          /\ UNCHANGED <<sess, dblock>>
    /\ pc' = [pc EXCEPT ![w] = "sum"]
    /\ UNCHANGED <<leaves, today, emp, ledger, fresh, rt>>

\* mutant of compute_total: the stored manual_balance is returned when set
compute_total_Manual(S, e) ==
    IF emp[e].manual_balance # NoBal THEN emp[e].manual_balance
    ELSE SumAmounts({t \in S : t.emp = e})

\* the rest of compute_balance: the SUM query, rounded to two decimals
\* (the amounts are already whole hundredths)
compute_total(S, e) == SumAmounts(TxOf(S, e))

\* value compute_balance hands to its caller, ErrBal when the SUM query
\* raises because the session is waiting for a rollback
BalanceResult(w) ==
    IF loc[w].failed = "flush" THEN ErrBal
    ELSE compute_total(View(w), loc[w].e)

BalanceSum(w) ==
    /\ pc[w] = "sum"
    /\ loc[w].op = "balance"
    /\ loc' = [loc EXCEPT ![w].res = BalanceResult(w)]
    /\ sess' = [sess EXCEPT ![w] = EmptySess]
    /\ dblock' = IF dblock = w THEN 0 ELSE dblock
    /\ pc' = [pc EXCEPT ![w] = "done"]
    /\ rt' = IF loc[w].failed # "no" \/ rt.e = loc[w].e
                   \/ loc[w].e \notin Staff
             THEN rt
             ELSE [NoRT EXCEPT !.e = loc[w].e, !.src = "lookup",
                               !.base = BalanceResult(w),
                               !.val = BalanceResult(w)]
    /\ UNCHANGED <<leaves, today, emp, ledger, fresh>>

\* the response is sent and the request ends
Return(w) ==
    /\ pc[w] = "done"
    /\ pc' = [pc EXCEPT ![w] = "idle"]
    /\ loc' = [loc EXCEPT ![w] = IdleLoc]
    /\ UNCHANGED <<leaves, today, emp, ledger, dblock, sess, fresh, rt>>

\* -------------------------------------------- recalc_accruals_for_promotion
\* mutants of Switchover: the day of the month is not looked at
Switchover_NextMonth(promotion_date) ==
    IF promotion_date.m = 12
    THEN [y |-> promotion_date.y + 1, m |-> 1, d |-> 1]
    ELSE [y |-> promotion_date.y, m |-> promotion_date.m + 1, d |-> 1]

Switchover_SameMonth(promotion_date) ==
    [y |-> promotion_date.y, m |-> promotion_date.m, d |-> 1]

\* first month that earns the new rate
Switchover(promotion_date) ==
    IF promotion_date.d = 1
    THEN [y |-> promotion_date.y, m |-> promotion_date.m, d |-> 1]
    ELSE IF promotion_date.m = 12
         THEN [y |-> promotion_date.y + 1, m |-> 1, d |-> 1]
         ELSE [y |-> promotion_date.y, m |-> promotion_date.m + 1, d |-> 1]

\* rate = new_rate if cur >= switchover else old_rate
RecalcRate(cur, sw, old, new) == IF DateLE(sw, cur) THEN new ELSE old

\* the regeneration loop: one row per month from cur to last_month
RECURSIVE RecalcRows(_, _, _, _, _, _, _)
RecalcRows(cur, last, e, sw, old, new, nid) ==
    IF ~DateLE(cur, last) THEN {}
    ELSE {[id |-> nid, emp |-> e, type |-> "ACCRUAL", period |-> PeriodOf(cur),
           amount |-> Round2(RecalcRate(cur, sw, old, new)), ref |-> 0]}
         \cup RecalcRows(NextMonth(cur), last, e, sw, old, new, nid + 1)

\* mutant of RecalcResult: the DELETE is not filtered by type
RecalcResult_AllTypes(S, e, hire, tdy, old, new, promotion_date) ==
    IF hire = NoDate THEN S
    ELSE LET kept == S \ TxOf(S, e)
         IN kept \cup RecalcRows(MonthStart(hire), MonthStart(tdy), e,
                                 Switchover(promotion_date), old, new,
                                 MaxId(kept) + 1)

\* table content after the DELETE of the employee's accruals, the
\* regeneration and the commit
RecalcResult(S, e, hire, tdy, old, new, promotion_date) ==
    IF hire = NoDate THEN S
    ELSE LET kept == S \ AccrualsOf(S, e)
         IN kept \cup RecalcRows(MonthStart(hire), MonthStart(tdy), e,
                                 Switchover(promotion_date), old, new,
                                 MaxId(kept) + 1)

\* --------------------------------------------------------- promote_employee
\* "Compute promotion effective month-start"
EffectiveMonthStart(promo_date) ==
    IF promo_date.d = 1 THEN MonthStart(promo_date)
    ELSE IF promo_date.m = 12
         THEN [y |-> promo_date.y + 1, m |-> 1, d |-> 1]
         ELSE [y |-> promo_date.y, m |-> promo_date.m + 1, d |-> 1]

NewRates == {2000, 2504}

PromoDates ==
    {[y |-> 2023, m |-> 12, d |-> 1], [y |-> 2023, m |-> 12, d |-> 15],
     [y |-> 2024, m |-> 1, d |-> 15]}

\* promotion dates of the form that lie on or before the first day
BackPromoDates ==
    {[y |-> 2023, m |-> 11, d |-> 1], [y |-> 2023, m |-> 12, d |-> 1]}

\* the promotion date of the form that lies after the first days
ForwardPromoDates == {[y |-> 2024, m |-> 1, d |-> 15]}

PromotionRow(S, e) ==
    [id |-> MaxId(S) + 1, emp |-> e, type |-> "PROMOTION", period |-> NoPeriod,
     amount |-> 0, ref |-> 0]

\* the left check fails: flash and redirect, nothing is written
PromoteRejected(w, e, promo_date) ==
    /\ pc[w] = "idle"
    /\ is_employee_left(emp[e], promo_date)
    /\ loc' = [loc EXCEPT ![w] = [IdleLoc EXCEPT !.op = "rejected", !.e = e,
                                            !.pdate = promo_date]]
    /\ pc' = [pc EXCEPT ![w] = "done"]
    /\ UNCHANGED <<leaves, today, emp, ledger, dblock, sess, fresh, rt>>

\* the employee row gets the new rate (commit), then the PROMOTION
\* transaction of amount 0 is inserted (commit)
PromoteBegin(w, e, new_rate, promo_date) ==
    /\ pc[w] = "idle"
    /\ Cardinality({t \in ledger : t.type = "PROMOTION"}) < MaxPromotions
    /\ ~is_employee_left(emp[e], promo_date)
    /\ dblock = 0
    /\ emp' = [emp EXCEPT ![e].accrual_rate = new_rate]
    /\ ledger' = ledger \cup {PromotionRow(ledger, e)}
    /\ loc' = [loc EXCEPT ![w] =
                 [IdleLoc EXCEPT !.op = "promote", !.e = e,
                                 !.old = emp[e].accrual_rate, !.new = new_rate,
                                 !.pdate = promo_date,
                                 !.eff = EffectiveMonthStart(promo_date),
                                 !.hire = emp[e].hire_date,
                                 !.pre = ledger \cup {PromotionRow(ledger, e)}]]
    /\ pc' = [pc EXCEPT ![w] = "recalc"]
    /\ UNCHANGED <<leaves, today, dblock, sess>>
    /\ fresh' = 0
    /\ rt' = NoRT

\* recalc_accruals_for_promotion(emp, old_rate, new_rate, promo_date): the
\* DELETE takes the write lock, which is held up to the commit
PromoteRecalc(w) ==
    /\ pc[w] = "recalc"
    /\ dblock = 0
    /\ LET l == loc[w] IN
         ledger' = RecalcResult(ledger, l.e, emp[l.e].hire_date, today,
                                l.old, l.new, l.pdate)
    /\ loc' = [loc EXCEPT ![w].today = today]
    /\ pc' = [pc EXCEPT ![w] = "adjust"]
    /\ UNCHANGED <<leaves, today, emp, dblock, sess, fresh, rt>>

\* mutant of RecalcAborted: the DELETE and the rows inserted before the
\* failure stay in the table
RecalcAborted_Partial(S, e, hire, old) ==
    IF hire = NoDate THEN S
    ELSE (S \ AccrualsOf(S, e))
         \cup RecalcRows(MonthStart(hire), MonthStart(hire), e,
                         NextMonth(MonthStart(hire)), old, old,
                         MaxId(S \ AccrualsOf(S, e)) + 1)

\* table content after a recalculation whose commit raised: the DELETE and
\* the INSERTs belong to one database transaction, which the failed flush
\* rolls back
RecalcAborted(S, e, hire, old) == S

\* recalc_accruals_for_promotion raises and promote_employee flashes a
\* warning.  Either the DELETE statement itself raised: nothing was deleted
\* and the request goes on to the reconciliation step.  Or the commit raised
\* while flushing the INSERTs: the transaction is rolled back and the session
\* refuses the next query, so the request ends in an error.
PromoteRecalcFail(w) ==
    /\ pc[w] = "recalc"
    /\ loc[w].hire # NoDate
    /\ \/ /\ loc' = [loc EXCEPT ![w].failed = "delete", ![w].today = today]
          /\ pc' = [pc EXCEPT ![w] = "adjust"]
          /\ UNCHANGED ledger
       \/ /\ dblock = 0
          /\ ledger' = RecalcAborted(ledger, loc[w].e, loc[w].hire, loc[w].old)
          /\ loc' = [loc EXCEPT ![w].failed = "commit", ![w].today = today,
                                ![w].res = ErrBal]
          /\ pc' = [pc EXCEPT ![w] = "done"]
    /\ UNCHANGED <<leaves, today, emp, dblock, sess, fresh, rt>>

\* expected minus actual accrual over the months from the effective month
\* to the current month
RECURSIVE PromotionDelta(_, _, _, _, _)
PromotionDelta(S, e, cur, last, new_rate) ==
    IF ~DateLE(cur, last) THEN 0
    ELSE LET actual == SumAmounts({t \in AccrualsOf(S, e) :
                                     t.period = PeriodOf(cur)})
         IN (Round2(new_rate) - actual)
            + PromotionDelta(S, e, NextMonth(cur), last, new_rate)

AdjustRow(S, e, amt) ==
    [id |-> MaxId(S) + 1, emp |-> e, type |-> "PROMOTION_ADJUST",
     period |-> NoPeriod, amount |-> amt, ref |-> 0]

\* the reconciliation step that follows the recalculation
PromoteAdjust(w) ==
    /\ pc[w] = "adjust"
    /\ dblock = 0
    /\ LET l == loc[w]
           total_delta == PromotionDelta(ledger, l.e, l.eff,
                                         MonthStart(today), l.new)
       IN ledger' = IF total_delta # 0
                    THEN ledger \cup {AdjustRow(ledger, l.e, total_delta)}
                    ELSE ledger
    /\ pc' = [pc EXCEPT ![w] = "done"]
    /\ UNCHANGED <<leaves, today, emp, dblock, loc, sess, fresh, rt>>

\* ------------------------------------------------------------ edit_employee
Roles == {"admin_1", "admin_master", "developer"}

ManualVals == {NoBal, 500}

EditRates == {1500, 2000}

EditedEmp(er, rate, status) ==
    [er EXCEPT !.accrual_rate = rate, !.status = status]

\* manual balance given, but the employee has left and the operator is not
\* the developer, or the role may not set a manual balance: redirect, the
\* edits made to the Employee object are dropped with the session
EditManualDenied(er, manual, role) ==
    /\ manual # NoBal
    /\ \/ is_employee_left(er, today) /\ role # "developer"
       \/ role \notin {"developer", "admin_master"}

EditRejected(w, e, rate, status, manual, role) ==
    /\ pc[w] = "idle"
    /\ EditManualDenied(EditedEmp(emp[e], rate, status), manual, role)
    /\ loc' = [loc EXCEPT ![w] = [IdleLoc EXCEPT !.op = "rejected", !.e = e]]
    /\ pc' = [pc EXCEPT ![w] = "done"]
    /\ UNCHANGED <<leaves, today, emp, ledger, dblock, sess, fresh, rt>>

\* no manual balance in the form: the profile edits are committed
EditProfile(w, e, rate, status) ==
    /\ pc[w] = "idle"
    /\ dblock = 0
    /\ emp' = [emp EXCEPT ![e] = EditedEmp(@, rate, status)]
    /\ loc' = [loc EXCEPT ![w] = [IdleLoc EXCEPT !.op = "profile", !.e = e]]
    /\ pc' = [pc EXCEPT ![w] = "done"]
    /\ UNCHANGED <<leaves, today, ledger, dblock, sess>>
    /\ fresh' = 0
    /\ rt' = NoRT

\* manual balance given and allowed: previous_balance = compute_balance(emp)
\* runs on the edited, not yet committed Employee object
EditManualBegin(w, e, rate, status, manual, role) ==
    /\ pc[w] = "idle"
    /\ manual # NoBal
    /\ Cardinality({t \in ledger : t.emp = e /\ t.type = "MANUAL_OVERRIDE"})
         < MaxOverrides
    /\ ~EditManualDenied(EditedEmp(emp[e], rate, status), manual, role)
    /\ StartCatchUp(w, e, EditedEmp(emp[e], rate, status), "edit", manual)
    /\ UNCHANGED <<leaves, today, emp, ledger, dblock, sess>>
    /\ fresh' = 0
    /\ rt' = NoRT

\* mutant of ManualDelta: the target itself is booked
ManualDelta_Target(manual, prev) == manual

\* delta = round(float(new_manual_val) - float(previous_balance), 2)
ManualDelta(manual, prev) == manual - prev

ManualRow(S, e, delta) ==
    [id |-> MaxId(S) + 1, emp |-> e, type |-> "MANUAL_OVERRIDE",
     period |-> NoPeriod, amount |-> delta, ref |-> 0]

\* after compute_balance: manual_balance is set and the session committed,
\* then the MANUAL_OVERRIDE row for a delta other than zero is inserted
\* and committed.  When the session is waiting for a rollback the first
\* commit raises and the request ends with nothing written.
EditFinish(w) ==
    /\ pc[w] = "sum"
    /\ loc[w].op = "edit"
    /\ LET l == loc[w]
           prev == BalanceResult(w)
           delta == ManualDelta(l.manual, prev)
       IN IF prev = ErrBal
          THEN /\ UNCHANGED <<emp, ledger>>
               /\ loc' = [loc EXCEPT ![w].res = ErrBal]
          ELSE /\ dblock \in {0, w}
               /\ emp' = [PendingEmp(w) EXCEPT ![l.e].manual_balance = l.manual]
               /\ ledger' = IF delta # 0
                             THEN View(w) \cup {ManualRow(View(w), l.e, delta)}
                             ELSE View(w)
               /\ loc' = [loc EXCEPT ![w].res = prev, ![w].pend = FALSE]
    /\ sess' = [sess EXCEPT ![w] = EmptySess]
    /\ dblock' = IF dblock = w THEN 0 ELSE dblock
    /\ pc' = [pc EXCEPT ![w] = "done"]
    /\ rt' = IF loc[w].failed # "no" THEN NoRT
             ELSE [NoRT EXCEPT !.e = loc[w].e, !.src = "manual",
                               !.base = loc[w].manual, !.val = loc[w].manual]
    /\ UNCHANGED <<leaves, today, fresh>>

\* ------------------------------------------------- import_employees_confirm
\* the employee the import file describes
Imported == 2

\* an employee_id that has no row in the employees table
AbsentEmp ==
    [hire_date |-> NoDate, accrual_rate |-> 0, left_date |-> NoDate,
     status |-> "absent", manual_balance |-> NoBal]

\* manual_balance column of the file: empty, 0.00 or 1.50
ImportManualVals == {NoBal, 0, 150}

ImportHireDates == {NoDate, [y |-> 2023, m |-> 12, d |-> 1]}

ImportedEmp(hire, rate, status) ==
    [hire_date |-> hire, accrual_rate |-> rate, left_date |-> NoDate,
     status |-> status, manual_balance |-> NoBal]

\* the summary row the import writes after its commit
ImportRow(S) ==
    [id |-> MaxId(S) + 1, emp |-> 0, type |-> "IMPORT", period |-> NoPeriod,
     amount |-> 0, ref |-> 0]

\* a row without manual_balance: the Employee is added and committed, then
\* the IMPORT row
ImportPlain(w, hire, rate, status) ==
    /\ pc[w] = "idle"
    /\ emp[Imported].status = "absent"
    /\ dblock = 0
    /\ emp' = [emp EXCEPT ![Imported] = ImportedEmp(hire, rate, status)]
    /\ ledger' = ledger \cup {ImportRow(ledger)}
    /\ loc' = [loc EXCEPT ![w] = [IdleLoc EXCEPT !.op = "import",
                                            !.e = Imported, !.pre = ledger]]
    /\ pc' = [pc EXCEPT ![w] = "done"]
    /\ UNCHANGED <<leaves, today, dblock, sess>>
    /\ fresh' = 0
    /\ rt' = NoRT

\* a row with manual_balance: the Employee is added and flushed and
\* current_balance = compute_balance(emp) runs the catch-up
ImportBegin(w, hire, rate, status, manual) ==
    /\ pc[w] = "idle"
    /\ emp[Imported].status = "absent"
    /\ manual # NoBal
    /\ dblock = 0
    /\ StartCatchUp(w, Imported, ImportedEmp(hire, rate, status), "import",
                    manual)
    /\ UNCHANGED <<leaves, today, emp, ledger, dblock, sess>>
    /\ fresh' = 0
    /\ rt' = NoRT

\* the MANUAL_OVERRIDE row of amount delta is added whatever delta is, the
\* import commits and writes its IMPORT row
ImportFinish(w) ==
    /\ pc[w] = "sum"
    /\ loc[w].op = "import"
    /\ loc[w].failed = "no"
    /\ dblock \in {0, w}
    /\ LET l == loc[w]
           prev == BalanceResult(w)
           delta == ManualDelta(l.manual, prev)
           booked == View(w) \cup {ManualRow(View(w), l.e, delta)}
       IN /\ emp' = PendingEmp(w)
          /\ ledger' = booked \cup {ImportRow(booked)}
          /\ loc' = [loc EXCEPT ![w].res = prev, ![w].pend = FALSE]
    /\ sess' = [sess EXCEPT ![w] = EmptySess]
    /\ dblock' = IF dblock = w THEN 0 ELSE dblock
    /\ pc' = [pc EXCEPT ![w] = "done"]
    /\ UNCHANGED <<leaves, today, fresh, rt>>

\* --------------------------------------------------------- remove_employee
remove_employee(e) ==
    /\ dblock = 0
    /\ emp' = [emp EXCEPT ![e].status = "left", ![e].left_date = today]
    /\ UNCHANGED <<leaves, today, ledger, dblock, pc, loc, sess>>
    /\ fresh' = 0
    /\ rt' = NoRT

\* ------------------------------------------------------------ record_leave
\* leave types as seeded: 1 = Paid (is_paid), 2 = Unpaid
LeaveTypes == {1, 2}

is_paid(lt) == lt = 1

\* day-counts of the form, in thousandths of a day
Days == {3000, 5000}

DateFroms == {[y |-> 2023, m |-> 11, d |-> 20], [y |-> 2024, m |-> 7, d |-> 1]}

\* a date_from that is hire_date + 6 months for one of the hire dates
SixMonthDates == {[y |-> 2024, m |-> 6, d |-> 1]}

\* the operator who records leave when the role is of no interest
Recorder == "admin_master"

DateTos == {[y |-> 2023, m |-> 11, d |-> 10], [y |-> 2024, m |-> 7, d |-> 5]}

MaxLeaveId(L) ==
    IF L = {} THEN 0
    ELSE CHOOSE i \in {l.id : l \in L} : \A l \in L : l.id <= i

\* hire_date + relativedelta(months=6), or today without a hire date
six_months_after(er, tdy) ==
    IF er.hire_date = NoDate THEN tdy
    ELSE IF er.hire_date.m + 6 > 12
         THEN [er.hire_date EXCEPT !.y = @ + 1, !.m = er.hire_date.m + 6 - 12]
         ELSE [er.hire_date EXCEPT !.m = @ + 6]

\* has_permission('can_override') or role in ('developer', 'admin_master')
can_override(role) == role \in {"admin_master", "developer"}

\* mutant of NeedsOverride: the leave type is not looked at
NeedsOverride_AnyType(er, lt, date_from, tdy) ==
    DateLT(date_from, six_months_after(er, tdy))

\* paid leave that starts within six months of the hire date
NeedsOverride(er, lt, date_from, tdy) ==
    is_paid(lt) /\ DateLT(date_from, six_months_after(er, tdy))

\* mutant of RecordLeaveDenied: the status test is lost
RecordLeaveDenied_NoStatus(er, lt, date_from, role, tdy) ==
    NeedsOverride(er, lt, date_from, tdy) /\ ~can_override(role)

\* the two refusals of record_leave: the employee is not active, or the paid
\* leave needs an override the operator may not give
RecordLeaveDenied(er, lt, date_from, role, tdy) ==
    \/ er.status # "active"
    \/ NeedsOverride(er, lt, date_from, tdy) /\ ~can_override(role)

\* round(-abs(days), 2) if is_paid else 0.0
LeaveAmount(days, lt) == IF is_paid(lt) THEN -Round2(days) ELSE 0

LeaveTakenRow(S, e, days, lt, ref) ==
    [id |-> MaxId(S) + 1, emp |-> e, type |-> "LEAVE_TAKEN",
     period |-> NoPeriod, amount |-> LeaveAmount(days, lt), ref |-> ref]

OverrideRow(S, e, ref) ==
    [id |-> MaxId(S) + 2, emp |-> e, type |-> "OVERRIDE",
     period |-> NoPeriod, amount |-> 0, ref |-> ref]

\* flash and redirect: nothing is written
RecordLeaveRejected(w, e, days, lt, date_from, role) ==
    /\ pc[w] = "idle"
    /\ RecordLeaveDenied(emp[e], lt, date_from, role, today)
    /\ loc' = [loc EXCEPT ![w] =
                 [IdleLoc EXCEPT !.op = "record_rejected", !.e = e,
                                 !.status = emp[e].status,
                                 !.pre = ledger, !.lpre = leaves]]
    /\ pc' = [pc EXCEPT ![w] = "done"]
    /\ UNCHANGED <<leaves, today, emp, ledger, dblock, sess, fresh, rt>>

\* the LeaveEntry is added and flushed (which assigns its id), then the
\* LEAVE_TAKEN transaction, and on the override path the OVERRIDE
\* transaction, are added to the session
RecordLeaveBegin(w, e, days, lt, date_from, date_to, role) ==
    /\ pc[w] = "idle"
    /\ ~RecordLeaveDenied(emp[e], lt, date_from, role, today)
    /\ Cardinality({l \in leaves : l.emp = e}) < MaxLeaves
    /\ dblock = 0
    /\ LET le == [id |-> MaxLeaveId(leaves) + 1, emp |-> e, days |-> days,
                  lt |-> lt]
           tr == LeaveTakenRow(ledger, e, days, lt, le.id)
       IN /\ loc' = [loc EXCEPT ![w] =
                       [IdleLoc EXCEPT !.op = "record", !.e = e, !.le = le,
                                       !.status = emp[e].status,
                                       !.dfrom = date_from, !.dto = date_to,
                                       !.role = role,
                                       !.pre = ledger, !.lpre = leaves]]
          /\ sess' = [sess EXCEPT ![w].adds =
                        IF NeedsOverride(emp[e], lt, date_from, today)
                        THEN {tr, OverrideRow(ledger, e, le.id)}
                        ELSE {tr}]
    /\ dblock' = w
    /\ pc' = [pc EXCEPT ![w] = "leave_commit"]
    /\ UNCHANGED <<leaves, today, emp, ledger, fresh, rt>>

\* balance the tracked employee should have after the leave l was written
TripAfter(l, src) ==
    IF rt.e # l.emp THEN rt
    ELSE IF src = "record" /\ rt.id = 0
         THEN [rt EXCEPT !.src = "record", !.id = l.id, !.n = 0,
                         !.base = rt.val,
                         !.val = rt.val + LeaveAmount(l.days, l.lt)]
    ELSE IF src = "edit" /\ rt.id = l.id
         THEN [rt EXCEPT !.src = "edit",
                         !.val = rt.base + LeaveAmount(l.days, l.lt),
                         !.n = IF /\ rt.val < rt.base
                                  /\ LeaveAmount(l.days, l.lt) < 0
                                  /\ rt.val # rt.base + LeaveAmount(l.days, l.lt)
                               THEN 1 ELSE rt.n]
    ELSE IF src = "delete" /\ rt.id = l.id
         THEN [rt EXCEPT !.src = "delete", !.id = 0, !.val = rt.base]
    ELSE NoRT

\* db.session.commit(): the record and its transactions are written together
RecordLeaveCommit(w) ==
    /\ pc[w] = "leave_commit"
    /\ leaves' = leaves \cup {loc[w].le}
    /\ ledger' = View(w)
    /\ sess' = [sess EXCEPT ![w] = EmptySess]
    /\ dblock' = 0
    /\ pc' = [pc EXCEPT ![w] = "done"]
    /\ rt' = TripAfter(loc[w].le, "record")
    /\ UNCHANGED <<today, emp, loc, fresh>>

\* mutant of RecordAborted: the flushed LeaveEntry survives the failure
RecordAborted_KeepsRecord(L, le) == L \cup {le}

\* leave_entries after a record_leave that raised: the exception is not
\* caught, the request ends and the session is removed, which rolls back
\* the flushed INSERT of the LeaveEntry
RecordAborted(L, le) == L

RecordLeaveFail(w) ==
    /\ pc[w] = "leave_commit"
    /\ leaves' = RecordAborted(leaves, loc[w].le)
    /\ sess' = [sess EXCEPT ![w] = EmptySess]
    /\ dblock' = 0
    /\ loc' = [loc EXCEPT ![w].failed = "commit"]
    /\ pc' = [pc EXCEPT ![w] = "done"]
    /\ UNCHANGED <<today, emp, ledger, fresh, rt>>

\* -------------------------------------------------------------- edit_leave
\* the day an edit that leaves the dates of a one-day leave alone submits
EditDate == [y |-> 2024, m |-> 7, d |-> 1]

LeaveById(L, id) == CHOOSE l \in L : l.id = id

\* only the developer may edit a leave record
EditLeaveRejected(w, id, role) ==
    /\ pc[w] = "idle"
    /\ \E l \in leaves : l.id = id
    /\ role # "developer"
    /\ loc' = [loc EXCEPT ![w] =
                 [IdleLoc EXCEPT !.op = "edit_leave_rejected",
                                 !.e = LeaveById(leaves, id).emp,
                                 !.pre = ledger, !.lpre = leaves]]
    /\ pc' = [pc EXCEPT ![w] = "done"]
    /\ UNCHANGED <<leaves, today, emp, ledger, dblock, sess, fresh, rt>>

\* the fields of the LeaveEntry are set from the form and committed
EditLeaveBegin(w, id, days, lt, date_from, date_to, role) ==
    /\ pc[w] = "idle"
    /\ \E l \in leaves : l.id = id
    /\ role = "developer"
    /\ dblock = 0
    /\ LET old == LeaveById(leaves, id)
           le == [old EXCEPT !.days = days, !.lt = lt]
       IN /\ leaves' = (leaves \ {old}) \cup {le}
          /\ loc' = [loc EXCEPT ![w] =
                       [IdleLoc EXCEPT !.op = "edit_leave", !.e = old.emp,
                                       !.le = le, !.pre = ledger,
                                       !.dfrom = date_from, !.dto = date_to,
                                       !.lpre = leaves]]
    /\ pc' = [pc EXCEPT ![w] = "edit_tx"]
    /\ UNCHANGED <<today, emp, ledger, dblock, sess, fresh, rt>>

\* Transaction.query.filter_by(reference_id=le.id, type='LEAVE_TAKEN')
LinkedLeaveTaken(S, id) == {t \in S : t.ref = id /\ t.type = "LEAVE_TAKEN"}

\* mutant of EditLeaveResult: a second LEAVE_TAKEN row is appended
EditLeaveResult_Append(S, le) ==
    S \cup {LeaveTakenRow(S, le.emp, le.days, le.lt, le.id)}

\* mutant of EditLeaveResult: the amount is set on every row that refers to
\* the record
EditLeaveResult_AllLinked(S, le) ==
    {IF t.ref = le.id THEN [t EXCEPT !.amount = LeaveAmount(le.days, le.lt)]
     ELSE t : t \in S}

\* table after tr.amount is set on the first linked LEAVE_TAKEN row
EditLeaveResult(S, le) ==
    IF LinkedLeaveTaken(S, le.id) = {} THEN S
    ELSE LET tr == CHOOSE t \in LinkedLeaveTaken(S, le.id) :
                      \A u \in LinkedLeaveTaken(S, le.id) : t.id <= u.id
         IN (S \ {tr}) \cup {[tr EXCEPT !.amount = LeaveAmount(le.days, le.lt)]}

\* the leave type and the linked transaction are read, the transaction's
\* amount and note are set, second commit
EditLeaveTx(w) ==
    /\ pc[w] = "edit_tx"
    /\ dblock = 0
    /\ ledger' = EditLeaveResult(ledger, loc[w].le)
    /\ pc' = [pc EXCEPT ![w] = "done"]
    /\ rt' = TripAfter(loc[w].le, "edit")
    /\ UNCHANGED <<leaves, today, emp, dblock, loc, sess, fresh>>

\* one of the two queries or the second commit raises: the request ends
\* with the first commit in place
EditLeaveFail(w) ==
    /\ pc[w] = "edit_tx"
    /\ loc' = [loc EXCEPT ![w].failed = "edit"]
    /\ pc' = [pc EXCEPT ![w] = "done"]
    /\ rt' = IF rt.e = loc[w].e THEN NoRT ELSE rt
    /\ UNCHANGED <<leaves, today, emp, ledger, dblock, sess, fresh>>

\* ------------------------------------------------------------ delete_leave
\* has_permission("can_delete_leave") or role in (developer, admin_master);
\* records of an employee who has left are for the developer only
DeleteLeaveDenied(er, role, tdy) ==
    \/ role \notin {"developer", "admin_master"}
    \/ is_employee_left(er, tdy) /\ role # "developer"

DeleteLeaveRejected(w, id, role) ==
    /\ pc[w] = "idle"
    /\ \E l \in leaves : l.id = id
    /\ DeleteLeaveDenied(emp[LeaveById(leaves, id).emp], role, today)
    /\ loc' = [loc EXCEPT ![w] =
                 [IdleLoc EXCEPT !.op = "delete_rejected",
                                 !.e = LeaveById(leaves, id).emp,
                                 !.pre = ledger, !.lpre = leaves]]
    /\ pc' = [pc EXCEPT ![w] = "done"]
    /\ UNCHANGED <<leaves, today, emp, ledger, dblock, sess, fresh, rt>>

AdjustmentRow(S, e) ==
    [id |-> MaxId(S) + 1, emp |-> e, type |-> "ADJUSTMENT",
     period |-> NoPeriod, amount |-> 0, ref |-> 0]

\* mutant of DeleteLeaveResult: only the LEAVE_TAKEN row is removed
DeleteLeaveResult_LeaveTakenOnly(S, le) ==
    (S \ LinkedLeaveTaken(S, le.id)) \cup {AdjustmentRow(S, le.emp)}

\* table after the rows with reference_id = le.id are deleted and the
\* ADJUSTMENT row is inserted
DeleteLeaveResult(S, le) ==
    (S \ {t \in S : t.ref = le.id}) \cup {AdjustmentRow(S, le.emp)}

\* the deletes and the insert are written by one commit
delete_leave(w, id, role) ==
    /\ pc[w] = "idle"
    /\ \E l \in leaves : l.id = id
    /\ Cardinality({t \in ledger : t.type = "ADJUSTMENT"}) < MaxDeletes
    /\ dblock = 0
    /\ LET le == LeaveById(leaves, id) IN
         /\ ~DeleteLeaveDenied(emp[le.emp], role, today)
         /\ ledger' = DeleteLeaveResult(ledger, le)
         /\ leaves' = leaves \ {le}
         /\ loc' = [loc EXCEPT ![w] =
                      [IdleLoc EXCEPT !.op = "delete", !.e = le.emp, !.le = le,
                                      !.pre = ledger, !.lpre = leaves]]
         /\ rt' = TripAfter(le, "delete")
    /\ pc' = [pc EXCEPT ![w] = "done"]
    /\ UNCHANGED <<today, emp, dblock, sess, fresh>>

\* ------------------------------------------------------------------ clock
\* requests last far less than a day: the date changes between requests
Tick ==
    /\ ClockIndex(today) < MaxTicks
    /\ \A w \in Workers : pc[w] = "idle"
    /\ today' = NextClock(today)
    /\ UNCHANGED <<leaves, emp, ledger, dblock, pc, loc, sess>>
    /\ fresh' = 0
    /\ rt' = NoRT

\* ------------------------------------------------------------------- init
HireDates == {[y |-> 2023, m |-> 11, d |-> 15], [y |-> 2023, m |-> 12, d |-> 1]}

InitRate == 1500

\* Employee 1 was added as active and once had its manual_balance field set
\* without a ledger row (the audit insert failed); employee 2 was imported
\* without a hire date and with an initial manual balance of 3.00, which
\* the import recorded as one MANUAL_OVERRIDE transaction, and has one paid
\* leave of one day on record.
InitLedger ==
    {[id |-> 1, emp |-> 2, type |-> "MANUAL_OVERRIDE", period |-> NoPeriod,
      amount |-> 300, ref |-> 0],
     [id |-> 2, emp |-> 2, type |-> "LEAVE_TAKEN", period |-> NoPeriod,
      amount |-> -100, ref |-> 1]}

InitLeaves == {[id |-> 1, emp |-> 2, days |-> 1000, lt |-> 1]}

Init ==
    /\ today = StartDate
    /\ \E h \in HireDates, st \in {"active"} :
         emp = [e \in Emps |->
                  IF e = 1
                  THEN [hire_date |-> h, accrual_rate |-> InitRate,
                        left_date |-> NoDate, status |-> st,
                        manual_balance |-> 700]
                  ELSE [hire_date |-> NoDate,
                        accrual_rate |-> InitRate, left_date |-> NoDate,
                        status |-> "active", manual_balance |-> NoBal]]
    /\ ledger = InitLedger
    /\ leaves = InitLeaves
    /\ rt = NoRT
    /\ fresh = 0
    /\ dblock = 0
    /\ pc = [w \in Workers |-> "idle"]
    /\ loc = [w \in Workers |-> IdleLoc]
    /\ sess = [w \in Workers |-> EmptySess]

\* the tables before the import: employee 1 as above, no row for the
\* employee of the import file, no transactions and no leave records
InitImport ==
    /\ today = StartDate
    /\ \E h \in HireDates :
         emp = [e \in Emps |->
                  IF e = Imported THEN AbsentEmp
                  ELSE [hire_date |-> h, accrual_rate |-> InitRate,
                        left_date |-> NoDate, status |-> "active",
                        manual_balance |-> 700]]
    /\ ledger = {}
    /\ leaves = {}
    /\ rt = NoRT
    /\ fresh = 0
    /\ dblock = 0
    /\ pc = [w \in Workers |-> "idle"]
    /\ loc = [w \in Workers |-> IdleLoc]
    /\ sess = [w \in Workers |-> EmptySess]

\* ids of the leave records of the employees the requests are about
StaffLeaveIds == {l.id : l \in {x \in leaves : x.emp \in Staff}}

\* no request is in progress
AllIdle == \A w \in Workers : pc[w] = "idle"

\* the steps of a request that has started
Steps ==
    \/ \E w \in Workers : WalkCheck(w)
    \/ \E w \in Workers : WalkInsert(w)
    \/ \E w \in Workers : CatchUpCommit(w)
    \/ \E w \in Workers : CatchUpCommitFail(w)
    \/ \E w \in Workers : WalkFail(w)
    \/ \E w \in Workers : BalanceSum(w)
    \/ \E w \in Workers : Return(w)

\* requests served one after the other: balance lookups, removal, profile
\* edits (manual-balance field left empty) and promotions
Next ==
    \/ Tick
    \/ \E e \in Staff : AllIdle /\ remove_employee(e)
    \/ \E w \in SeqWorkers, e \in Emps : AllIdle /\ BalanceBegin(w, e)
    \/ \E w \in SeqWorkers, e \in Staff, pd \in PromoDates :
          AllIdle /\ PromoteRejected(w, e, pd)
    \/ \E w \in SeqWorkers, e \in Staff, nr \in NewRates, pd \in PromoDates :
          AllIdle /\ PromoteBegin(w, e, nr, pd)
    \/ \E w \in Workers : PromoteRecalc(w)
    \/ \E w \in Workers : PromoteAdjust(w)
    \/ \E w \in SeqWorkers, e \in Staff, r \in EditRates,
          st \in {"active", "left"} :
          AllIdle /\ EditProfile(w, e, r, st)
    \/ Steps

Spec == Init /\ [][Next]_vars

\* requests served one after the other: balance lookups, removal and
\* employee edits with or without a manual balance
NextManual ==
    \/ Tick
    \/ \E e \in Staff : AllIdle /\ remove_employee(e)
    \/ \E w \in SeqWorkers, e \in Emps : AllIdle /\ BalanceBegin(w, e)
    \/ \E w \in SeqWorkers, e \in Staff, r \in EditRates,
          st \in {"active", "left"}, mb \in ManualVals, ro \in Roles :
          AllIdle /\ EditRejected(w, e, r, st, mb, ro)
    \/ \E w \in SeqWorkers, e \in Staff, r \in EditRates,
          st \in {"active", "left"} :
          AllIdle /\ EditProfile(w, e, r, st)
    \/ \E w \in SeqWorkers, e \in Staff, r \in EditRates,
          st \in {"active", "left"}, mb \in ManualVals, ro \in Roles :
          AllIdle /\ EditManualBegin(w, e, r, st, mb, ro)
    \/ \E w \in Workers : EditFinish(w)
    \/ Steps

SpecManual == Init /\ [][NextManual]_vars

\* requests served one after the other: balance lookups and promotions
\* whose recalculation may fail
NextPromo ==
    \/ Tick
    \/ \E w \in SeqWorkers, e \in Emps : AllIdle /\ BalanceBegin(w, e)
    \/ \E w \in SeqWorkers, e \in Staff, nr \in NewRates, pd \in PromoDates :
          AllIdle /\ PromoteBegin(w, e, nr, pd)
    \/ \E w \in Workers : PromoteRecalc(w)
    \/ \E w \in Workers : PromoteRecalcFail(w)
    \/ \E w \in Workers : PromoteAdjust(w)
    \/ Steps

SpecPromo == Init /\ [][NextPromo]_vars

\* requests served one after the other on one day: removal, and recording,
\* editing and deleting leave of one day (date_to = date_from), recorded by
\* the Recorder, any of which may be refused or fail
NextLeave ==
    \/ \E e \in Staff : AllIdle /\ remove_employee(e)
    \/ \E w \in SeqWorkers, e \in Staff, d \in Days, lt \in LeaveTypes,
          df \in DateFroms, ro \in Roles :
          AllIdle /\ RecordLeaveRejected(w, e, d, lt, df, ro)
    \/ \E w \in SeqWorkers, e \in Staff, d \in Days, lt \in LeaveTypes,
          df \in DateFroms :
          AllIdle /\ RecordLeaveBegin(w, e, d, lt, df, df, Recorder)
    \/ \E w \in Workers : RecordLeaveCommit(w)
    \/ \E w \in Workers : RecordLeaveFail(w)
    \/ \E w \in SeqWorkers, id \in StaffLeaveIds, ro \in Roles :
          AllIdle /\ EditLeaveRejected(w, id, ro)
    \/ \E w \in SeqWorkers, id \in StaffLeaveIds, d \in Days,
          lt \in LeaveTypes, ro \in Roles :
          AllIdle /\ EditLeaveBegin(w, id, d, lt, EditDate, EditDate, ro)
    \/ \E w \in Workers : EditLeaveTx(w)
    \/ \E w \in Workers : EditLeaveFail(w)
    \/ \E w \in SeqWorkers, id \in StaffLeaveIds, ro \in Roles :
          AllIdle /\ DeleteLeaveRejected(w, id, ro)
    \/ \E w \in SeqWorkers, id \in StaffLeaveIds, ro \in Roles :
          AllIdle /\ delete_leave(w, id, ro)
    \/ \E w \in Workers : Return(w)

SpecLeave == Init /\ [][NextLeave]_vars

\* requests served one after the other on one day: balance lookups, and
\* recording, editing and deleting leave of one day (date_to = date_from),
\* recorded by the Recorder
NextTrip ==
    \/ \E w \in SeqWorkers, e \in Staff : AllIdle /\ BalanceBegin(w, e)
    \/ \E w \in SeqWorkers, e \in Staff, d \in Days, lt \in LeaveTypes,
          df \in DateFroms :
          AllIdle /\ RecordLeaveBegin(w, e, d, lt, df, df, Recorder)
    \/ \E w \in Workers : RecordLeaveCommit(w)
    \/ \E w \in SeqWorkers, id \in StaffLeaveIds, d \in Days,
          lt \in LeaveTypes, ro \in Roles :
          AllIdle /\ EditLeaveBegin(w, id, d, lt, EditDate, EditDate, ro)
    \/ \E w \in Workers : EditLeaveTx(w)
    \/ \E w \in SeqWorkers, id \in StaffLeaveIds, ro \in Roles :
          AllIdle /\ delete_leave(w, id, ro)
    \/ Steps

SpecTrip == Init /\ [][NextTrip]_vars

\* requests served one after the other on one day: leave forms with any
\* pair of dates, recorded or edited
NextForm ==
    \/ \E w \in SeqWorkers, e \in Staff, d \in Days, lt \in LeaveTypes,
          df \in DateFroms \cup SixMonthDates, ro \in Roles :
          AllIdle /\ RecordLeaveRejected(w, e, d, lt, df, ro)
    \/ \E w \in SeqWorkers, e \in Staff, d \in Days, lt \in LeaveTypes,
          df \in DateFroms \cup SixMonthDates, dt \in DateTos, ro \in Roles :
          AllIdle /\ RecordLeaveBegin(w, e, d, lt, df, dt, ro)
    \/ \E w \in Workers : RecordLeaveCommit(w)
    \/ \E w \in SeqWorkers, id \in StaffLeaveIds, ro \in Roles :
          AllIdle /\ EditLeaveRejected(w, id, ro)
    \/ \E w \in SeqWorkers, id \in StaffLeaveIds, d \in Days,
          lt \in LeaveTypes, df \in DateFroms, dt \in DateTos,
          ro \in Roles :
          AllIdle /\ EditLeaveBegin(w, id, d, lt, df, dt, ro)
    \/ \E w \in Workers : EditLeaveTx(w)
    \/ \E w \in Workers : Return(w)

SpecForm == Init /\ [][NextForm]_vars

\* balance lookups and removals served by concurrent threads, each with its
\* own session, on one day
NextConc ==
    \/ \E e \in Staff : remove_employee(e)
    \/ \E w \in Workers, e \in Emps : BalanceBegin(w, e)
    \/ Steps

SpecConc == Init /\ [][NextConc]_vars

\* requests served one after the other: balance lookups and promotions
\* dated on or before the first day
NextBack ==
    \/ Tick
    \/ \E w \in SeqWorkers, e \in Emps : AllIdle /\ BalanceBegin(w, e)
    \/ \E w \in SeqWorkers, e \in Staff, nr \in NewRates,
          pd \in BackPromoDates :
          AllIdle /\ PromoteBegin(w, e, nr, pd)
    \/ \E w \in Workers : PromoteRecalc(w)
    \/ \E w \in Workers : PromoteAdjust(w)
    \/ Steps

SpecBack == Init /\ [][NextBack]_vars

\* requests served one after the other: balance lookups and promotions of
\* an employee whose rate was InitRate until then, dated 2024-01-15
NextForward ==
    \/ Tick
    \/ \E w \in SeqWorkers, e \in Emps : AllIdle /\ BalanceBegin(w, e)
    \/ \E w \in SeqWorkers, e \in Staff, nr \in NewRates,
          pd \in ForwardPromoDates :
          AllIdle /\ PromoteBegin(w, e, nr, pd)
    \/ \E w \in Workers : PromoteRecalc(w)
    \/ \E w \in Workers : PromoteAdjust(w)
    \/ Steps

SpecForward == Init /\ [][NextForward]_vars

\* requests served one after the other: profile edits that set the status
\* to left, without a left_date, on the first day, and balance lookups on
\* that day and on later days
NextGone ==
    \/ Tick
    \/ \E w \in SeqWorkers, e \in Staff, r \in EditRates :
          AllIdle /\ today = StartDate /\ EditProfile(w, e, r, "left")
    \/ \E w \in SeqWorkers, e \in Emps : AllIdle /\ BalanceBegin(w, e)
    \/ Steps

SpecGone == Init /\ [][NextGone]_vars

\* requests served one after the other, none of which fails: the import of
\* one employee and balance lookups for the employees that exist
NextImport ==
    \/ Tick
    \/ \E w \in SeqWorkers, h \in ImportHireDates, st \in {"active", "left"} :
          AllIdle /\ ImportPlain(w, h, InitRate, st)
    \/ \E w \in SeqWorkers, h \in ImportHireDates, st \in {"active", "left"},
          mb \in ImportManualVals :
          AllIdle /\ ImportBegin(w, h, InitRate, st, mb)
    \/ \E w \in Workers : ImportFinish(w)
    \/ \E w \in SeqWorkers, e \in Emps :
          AllIdle /\ emp[e].status # "absent" /\ BalanceBegin(w, e)
    \/ \E w \in Workers : WalkCheck(w)
    \/ \E w \in Workers : WalkInsert(w)
    \/ \E w \in Workers : CatchUpCommit(w)
    \/ \E w \in Workers : BalanceSum(w)
    \/ \E w \in Workers : Return(w)

SpecImport == InitImport /\ [][NextImport]_vars

\* balance lookups and promotions served by concurrent threads, each with
\* its own session, on one day
NextRace ==
    \/ \E w \in Workers, e \in Staff : BalanceBegin(w, e)
    \/ \E w \in Workers, e \in Staff, nr \in NewRates, pd \in PromoDates :
          PromoteBegin(w, e, nr, pd)
    \/ \E w \in Workers : PromoteRecalc(w)
    \/ \E w \in Workers : PromoteAdjust(w)
    \/ Steps

SpecRace == Init /\ [][NextRace]_vars

\* ================================================================ claims
\* last month the month walk of apply_missing_accruals_for_employee covers
LastWalkIdx(er, tdy) ==
    LET lf == EffectiveLeft(er, tdy)
    IN IF lf # NoDate /\ MonthIdx(lf) - 1 < MonthIdx(tdy)
       THEN MonthIdx(lf) - 1
       ELSE MonthIdx(tdy)

PeriodIdxs(S, e) == {PeriodIdx(t.period) : t \in AccrualsOf(S, e)}

OnePerPeriod(S, e) ==
    \A t1, t2 \in AccrualsOf(S, e) : t1.period = t2.period => t1 = t2

\* C1: at most one ACCRUAL transaction exists per (employee, period), also
\* when catch-up calls for the same employee run concurrently.
C1_AtMostOneAccrualPerPeriod ==
    \A e \in Emps : OnePerPeriod(ledger, e)

\* C2: after a catch-up for an employee with a hire date and no departure,
\* the accrual periods are exactly the months from the hire month to the
\* month before today's month, one transaction each.
C2_MonthlyCompleteness ==
    \A w \in Workers :
        (/\ pc[w] = "done"
         /\ loc[w].op = "balance"
         /\ loc[w].failed = "no"
         /\ loc[w].hire # NoDate
         /\ loc[w].left = NoDate)
        => /\ PeriodIdxs(ledger, loc[w].e)
                = MonthIdx(loc[w].hire) .. (MonthIdx(loc[w].today) - 1)
           /\ OnePerPeriod(ledger, loc[w].e)

\* C3: a catch-up that follows a completed catch-up for the same employee on
\* the same date inserts nothing; the balance and the number of accruals are
\* those of the first call.
C3_Idempotent ==
    \A w \in Workers :
        loc[w].again
        => /\ sess[w].adds = {}
           /\ pc[w] # "insert"
           /\ pc[w] = "done"
                => /\ loc[w].res = loc[w].base
                   /\ Cardinality(AccrualsOf(ledger, loc[w].e)) = loc[w].n0

C3_Witness ==
    \E w \in Workers :
        /\ pc[w] = "done"
        /\ loc[w].again
        /\ loc[w].failed = "no"
        /\ loc[w].n0 >= 2
        /\ loc[w].res = loc[w].base
        /\ loc[w].res > 0

\* C4: for an employee with a left_date a catch-up inserts no accrual for
\* the month of left_date or a later month, and once it has completed every
\* month from the hire month to the month before the departure month has
\* its accrual.
C4_DepartureBoundary ==
    \A w \in Workers :
        (loc[w].op \in {"balance", "edit"} /\ emp[loc[w].e].left_date # NoDate)
        => LET lf == emp[loc[w].e].left_date
           IN /\ \A t \in sess[w].adds :
                    PeriodIdx(t.period) < MonthIdx(lf)
              /\ (pc[w] \in {"sum", "done"} /\ loc[w].failed = "no"
                    /\ loc[w].hire # NoDate)
                   => \A i \in MonthIdx(loc[w].hire) .. (MonthIdx(lf) - 1) :
                         i \in PeriodIdxs(ledger, loc[w].e)

\* hired in one month, left in the next, balance asked two months later on
\* an empty ledger: only the hire month accrues
C4_Witness ==
    \E w \in Workers :
        /\ pc[w] = "done"
        /\ loc[w].op = "balance"
        /\ loc[w].failed = "no"
        /\ loc[w].n0 = 0
        /\ emp[loc[w].e].left_date # NoDate
        /\ emp[loc[w].e].status = "left"
        /\ MonthIdx(emp[loc[w].e].left_date) = MonthIdx(loc[w].hire) + 1
        /\ MonthIdx(loc[w].today) > MonthIdx(emp[loc[w].e].left_date)
        /\ PeriodIdxs(ledger, loc[w].e) = {MonthIdx(loc[w].hire)}
        /\ loc[w].res = Round2(loc[w].rate)

\* C5: no ACCRUAL transaction exists for a period at or after the effective
\* departure month of its employee.
C5_NoAccrualAtOrAfterDeparture ==
    \A e \in Emps :
        LET lf == EffectiveLeft(emp[e], today)
        IN lf # NoDate
           => \A t \in AccrualsOf(ledger, e) :
                 PeriodIdx(t.period) < MonthIdx(lf)

\* C6: a balance lookup that meets no failure has run the catch-up and
\* returns the sum of the amounts of the employee's transactions, whatever
\* manual_balance holds and whatever other employees own.
C6_BalanceIsLedgerSum ==
    \A w \in Workers :
        (pc[w] = "done" /\ loc[w].op = "balance" /\ loc[w].failed = "no")
        => LET e == loc[w].e
           IN /\ loc[w].res = SumAmounts({t \in ledger : t.emp = e})
              /\ loc[w].hire # NoDate
                   => \A i \in MonthIdx(loc[w].hire)
                                 .. LastWalkIdx(emp[e], loc[w].today) :
                         i \in PeriodIdxs(ledger, e)

\* a lookup made after a manual correction and a later accrual: the result
\* differs from the stored manual_balance, and another employee has rows
C6_Witness ==
    \E w \in Workers :
        /\ pc[w] = "done"
        /\ loc[w].op = "balance"
        /\ loc[w].failed = "no"
        /\ loc[w].e = 1
        /\ \E t \in ledger : t.emp = 1 /\ t.type = "MANUAL_OVERRIDE"
        /\ \E t \in ledger : t.emp = 1 /\ t.type = "ACCRUAL"
        /\ \E t \in ledger : t.emp = 2 /\ t.amount # 0
        /\ emp[1].manual_balance # NoBal
        /\ loc[w].res # emp[1].manual_balance
        /\ loc[w].res = SumAmounts({t \in ledger : t.emp = 1})

\* C7: when the accrual generation fails inside a balance lookup, the lookup
\* still returns the sum of the transactions committed before the call, and
\* the ledger holds nothing from the failed call.
C7_FailedGenerationDegrades ==
    \A w \in Workers :
        (pc[w] = "done" /\ loc[w].op = "balance" /\ loc[w].failed # "no")
        => /\ loc[w].res = loc[w].base
           /\ SumAmounts({t \in ledger : t.emp = loc[w].e}) = loc[w].base

\* C8: after the recalculation for a promotion dated on day 1, accruals of
\* the months before the promotion month carry the old rate and those of
\* the promotion month and later carry the new rate.
C8_SwitchoverDayOne ==
    \A w \in Workers :
        (pc[w] = "adjust" /\ loc[w].failed = "no" /\ loc[w].pdate.d = 1)
        => \A t \in AccrualsOf(ledger, loc[w].e) :
              t.amount = IF PeriodIdx(t.period) < MonthIdx(loc[w].pdate)
                         THEN Round2(loc[w].old)
                         ELSE Round2(loc[w].new)

C8_Witness ==
    \E w \in Workers :
        /\ pc[w] = "adjust"
        /\ loc[w].failed = "no"
        /\ loc[w].pdate.d = 1
        /\ Round2(loc[w].old) # Round2(loc[w].new)
        /\ \E t \in AccrualsOf(ledger, loc[w].e) :
              /\ PeriodIdx(t.period) = MonthIdx(loc[w].pdate) - 1
              /\ t.amount = Round2(loc[w].old)
        /\ \E t \in AccrualsOf(ledger, loc[w].e) :
              /\ PeriodIdx(t.period) = MonthIdx(loc[w].pdate)
              /\ t.amount = Round2(loc[w].new)
        /\ \E t \in AccrualsOf(ledger, loc[w].e) :
              /\ PeriodIdx(t.period) > MonthIdx(loc[w].pdate)
              /\ t.amount = Round2(loc[w].new)

\* C9: after the recalculation for a promotion dated on another day than
\* the 1st, accruals up to and including the promotion month carry the old
\* rate and those of later months carry the new rate; a December promotion
\* switches over in January of the next year.
C9_SwitchoverLaterDay ==
    \A w \in Workers :
        (pc[w] = "adjust" /\ loc[w].failed = "no" /\ loc[w].pdate.d # 1)
        => \A t \in AccrualsOf(ledger, loc[w].e) :
              t.amount = IF PeriodIdx(t.period) <= MonthIdx(loc[w].pdate)
                         THEN Round2(loc[w].old)
                         ELSE Round2(loc[w].new)

C9_Witness ==
    \E w \in Workers :
        /\ pc[w] = "adjust"
        /\ loc[w].failed = "no"
        /\ loc[w].pdate.d # 1
        /\ loc[w].pdate.m = 12
        /\ Round2(loc[w].old) # Round2(loc[w].new)
        /\ \E t \in AccrualsOf(ledger, loc[w].e) :
              /\ t.period = <<loc[w].pdate.y, 12>>
              /\ t.amount = Round2(loc[w].old)
        /\ \E t \in AccrualsOf(ledger, loc[w].e) :
              /\ t.period = <<loc[w].pdate.y + 1, 1>>
              /\ t.amount = Round2(loc[w].new)

\* C10: after the recalculation the employee has exactly one accrual per
\* period and the periods are those the catch-up walk covers for the same
\* employee and date: hire month to the last walk month, none at or after
\* the effective departure month.
C10_RecalcFollowsCatchUpBoundary ==
    \A w \in Workers :
        (pc[w] = "adjust" /\ loc[w].failed = "no"
           /\ emp[loc[w].e].hire_date # NoDate)
        => LET e == loc[w].e
           IN /\ OnePerPeriod(ledger, e)
              /\ PeriodIdxs(ledger, e)
                   = MonthIdx(emp[e].hire_date) .. LastWalkIdx(emp[e], today)

\* rows that are not accruals of employee e
NotAccrualOf(S, e) == S \ AccrualsOf(S, e)

\* accruals of e for the months before, or from, the month-start sw
AccrualsBefore(S, e, sw) ==
    {t \in AccrualsOf(S, e) : PeriodIdx(t.period) < MonthIdx(sw)}

AccrualsFrom(S, e, sw) ==
    {t \in AccrualsOf(S, e) : PeriodIdx(t.period) >= MonthIdx(sw)}

\* C11: the recalculation, whether it succeeds or fails, leaves every
\* transaction that is not an ACCRUAL of the promoted employee as it was:
\* the employee's non-accrual rows and all rows of other employees.
C11_RecalcTouchesOnlyAccruals ==
    \A w \in Workers :
        (loc[w].op = "promote"
           /\ (pc[w] = "adjust" \/ loc[w].failed = "commit"))
        => NotAccrualOf(ledger, loc[w].e) = NotAccrualOf(loc[w].pre, loc[w].e)

\* a recalculation that replaced two or more accruals by new rows, with a
\* PROMOTION row of the employee and a row of another employee in the table
C11_Witness ==
    \E w \in Workers :
        /\ pc[w] = "adjust"
        /\ loc[w].failed = "no"
        /\ Cardinality(AccrualsOf(loc[w].pre, loc[w].e)) >= 2
        /\ AccrualsOf(ledger, loc[w].e) # AccrualsOf(loc[w].pre, loc[w].e)
        /\ AccrualsOf(ledger, loc[w].e) # {}
        /\ \E t \in ledger : t.emp = loc[w].e /\ t.type = "PROMOTION"
        /\ \E t \in ledger : t.emp # loc[w].e /\ t.type = "MANUAL_OVERRIDE"

\* C12: when a catch-up had brought the accruals up to date before the call
\* (one per month from the hire month to the current month), the
\* recalculation changes the balance by the new minus the old accrual total
\* of the months from the switchover on; the accruals of earlier months sum
\* to what they did before.
C12_BalanceShiftFromSwitchover ==
    \A w \in Workers :
        LET e == loc[w].e
            sw == Switchover(loc[w].pdate)
        IN (/\ pc[w] = "adjust"
            /\ loc[w].failed = "no"
            /\ loc[w].hire # NoDate
            /\ emp[e].left_date = NoDate
            /\ OnePerPeriod(loc[w].pre, e)
            /\ PeriodIdxs(loc[w].pre, e)
                 = MonthIdx(loc[w].hire) .. MonthIdx(loc[w].today))
           => /\ SumAmounts(AccrualsBefore(ledger, e, sw))
                   = SumAmounts(AccrualsBefore(loc[w].pre, e, sw))
              /\ SumAmounts(TxOf(ledger, e)) - SumAmounts(TxOf(loc[w].pre, e))
                   = SumAmounts(AccrualsFrom(ledger, e, sw))
                       - SumAmounts(AccrualsFrom(loc[w].pre, e, sw))

\* C13: after a recalculation that failed, the committed accruals of the
\* employee are the complete set that existed before the call, also once the
\* promote request has gone on and committed its adjustment.
C13_RecalcAtomic ==
    \A w \in Workers :
        (loc[w].op = "promote" /\ loc[w].failed # "no")
        => AccrualsOf(ledger, loc[w].e) = AccrualsOf(loc[w].pre, loc[w].e)

\* the commit of a recalculation over two or more accruals raised
C13_Witness ==
    \E w \in Workers :
        /\ loc[w].op = "promote"
        /\ loc[w].failed = "commit"
        /\ pc[w] = "done"
        /\ Cardinality(AccrualsOf(ledger, loc[w].e)) >= 2
        /\ AccrualsOf(ledger, loc[w].e) = AccrualsOf(loc[w].pre, loc[w].e)
        /\ \E t \in ledger : t.emp = loc[w].e /\ t.type = "PROMOTION"

\* C14: a record_leave request for an employee whose status is not active
\* is refused, and leaves the ledger and the leave records as they were.
C14_InactiveRejected ==
    \A w \in Workers :
        (loc[w].op \in {"record", "record_rejected"}
           /\ loc[w].status # "active")
        => /\ loc[w].op = "record_rejected"
           /\ sess[w] = EmptySess
           /\ ledger = loc[w].pre
           /\ leaves = loc[w].lpre

\* a refusal for an employee who was removed
C14_Witness ==
    \E w \in Workers :
        /\ pc[w] = "done"
        /\ loc[w].op = "record_rejected"
        /\ loc[w].status = "left"
        /\ emp[loc[w].e].left_date # NoDate
        /\ ledger = loc[w].pre
        /\ leaves = loc[w].lpre

\* the LEAVE_TAKEN row t holds what belongs to leave record l: minus the
\* day-count for paid leave, zero for unpaid leave (t.amount is in
\* hundredths, l.days in thousandths)
Matches(t, l) ==
    t.amount * 10 = (IF is_paid(l.lt) THEN -l.days ELSE 0)

\* C15: between requests every LEAVE_TAKEN transaction refers to an existing
\* leave record of the same employee and holds minus its day-count when the
\* leave type is paid and zero when it is unpaid.
C15_LeaveTakenMatchesRecord ==
    AllIdle
    => \A t \in ledger :
          t.type = "LEAVE_TAKEN"
          => \E l \in leaves : l.id = t.ref /\ l.emp = t.emp /\ Matches(t, l)

\* C16: every committed leave record has exactly one LEAVE_TAKEN transaction
\* that refers to it, and a record_leave request that failed has left
\* neither a record nor a transaction.
C16_RecordAtomic ==
    /\ \A l \in leaves : Cardinality(LinkedLeaveTaken(ledger, l.id)) = 1
    /\ \A w \in Workers :
          (loc[w].op = "record" /\ loc[w].failed # "no")
          => /\ leaves = loc[w].lpre
             /\ ledger = loc[w].pre
             /\ sess[w] = EmptySess

\* the commit of a record_leave request raised after the record was flushed
C16_Witness ==
    \E w \in Workers :
        /\ pc[w] = "done"
        /\ loc[w].op = "record"
        /\ loc[w].failed = "commit"
        /\ loc[w].le.id \notin {l.id : l \in leaves}
        /\ LinkedLeaveTaken(ledger, loc[w].le.id) = {}
        /\ leaves # {}

\* C17: at a fixed date a balance lookup made after a leave was recorded,
\* edited or deleted returns the balance from before the leave minus the
\* paid day-count the record holds now, and the earlier balance itself once
\* the record is deleted.
C17_LeaveRoundTrip ==
    \A w \in Workers :
        (/\ pc[w] = "done"
         /\ loc[w].op = "balance"
         /\ loc[w].failed = "no"
         /\ loc[w].trip.src \in {"record", "edit", "delete"})
        => loc[w].res = loc[w].trip.val

\* a paid leave was recorded, edited to another paid day-count and deleted;
\* the lookup returns the balance from before the leave
C17_Witness ==
    \E w \in Workers :
        /\ pc[w] = "done"
        /\ loc[w].op = "balance"
        /\ loc[w].failed = "no"
        /\ loc[w].trip.src = "delete"
        /\ loc[w].trip.n = 1
        /\ loc[w].res = loc[w].trip.base
        /\ loc[w].res > 0
        /\ \E t \in ledger : t.emp = loc[w].e /\ t.type = "ADJUSTMENT"

\* C18: once an edit_leave request has ended, with or without a failure,
\* the LEAVE_TAKEN transaction linked to the record holds the amount that
\* belongs to the day-count and leave type the record holds.
C18_EditAtomic ==
    \A w \in Workers :
        (pc[w] = "done" /\ loc[w].op = "edit_leave")
        => \A t \in LinkedLeaveTaken(ledger, loc[w].le.id) :
              Matches(t, loc[w].le)

\* C19: delete_leave removes the leave record and exactly the transactions
\* whose reference_id is its id, none of them an ACCRUAL, and inserts one
\* ADJUSTMENT transaction of amount 0 for the employee.
C19_DeleteLeaveEffect ==
    \A w \in Workers :
        (pc[w] = "done" /\ loc[w].op = "delete")
        => LET le == loc[w].le
               removed == loc[w].pre \ ledger
               added == ledger \ loc[w].pre
           IN /\ le \in loc[w].lpre
              /\ leaves = loc[w].lpre \ {le}
              /\ removed = {t \in loc[w].pre : t.ref = le.id}
              /\ \A t \in removed : t.type # "ACCRUAL"
              /\ Cardinality(added) = 1
              /\ \A t \in added :
                    /\ t.type = "ADJUSTMENT"
                    /\ t.amount = 0
                    /\ t.emp = le.emp

\* a leave recorded with an override is deleted: its LEAVE_TAKEN and
\* OVERRIDE rows go, the accruals and the rows of another leave stay
C19_Witness ==
    \E w \in Workers :
        /\ pc[w] = "done"
        /\ loc[w].op = "delete"
        /\ \E t \in loc[w].pre \ ledger : t.type = "LEAVE_TAKEN"
        /\ \E t \in loc[w].pre \ ledger : t.type = "OVERRIDE"
        /\ \E t \in ledger : t.type = "ACCRUAL" /\ t.emp = loc[w].le.emp
        /\ \E t \in ledger : t.ref # 0 /\ t.ref # loc[w].le.id
        /\ \E t \in ledger : t.type = "ADJUSTMENT" /\ t.amount = 0

\* C20: after an edit that set a manual balance B other than the balance the
\* catch-up gave, the ledger holds one new MANUAL_OVERRIDE transaction of
\* amount B minus that balance and sums to B, and a balance lookup on the
\* same date returns B.
C20_ManualOverrideDelta ==
    \A w \in Workers :
        /\ (/\ pc[w] = "done"
            /\ loc[w].op = "edit"
            /\ loc[w].failed = "no"
            /\ loc[w].manual # loc[w].res)
           => LET e == loc[w].e
                  new == {t \in ledger \ loc[w].pre :
                            t.type = "MANUAL_OVERRIDE"}
              IN /\ Cardinality(new) = 1
                 /\ \A t \in new : /\ t.emp = e
                                   /\ t.amount = loc[w].manual - loc[w].res
                 /\ loc[w].res = SumAmounts(TxOf(ledger \ new, e))
                 /\ SumAmounts(TxOf(ledger, e)) = loc[w].manual
        /\ (/\ pc[w] = "done"
            /\ loc[w].op = "balance"
            /\ loc[w].failed = "no"
            /\ loc[w].trip.src = "manual")
           => loc[w].res = loc[w].trip.val

\* a lookup that follows a manual correction made on top of accruals
C20_Witness ==
    \E w \in Workers :
        /\ pc[w] = "done"
        /\ loc[w].op = "balance"
        /\ loc[w].failed = "no"
        /\ loc[w].trip.src = "manual"
        /\ loc[w].res = loc[w].trip.val
        /\ \E t \in ledger : t.emp = loc[w].e /\ t.type = "ACCRUAL"
        /\ \E t \in ledger : /\ t.emp = loc[w].e
                             /\ t.type = "MANUAL_OVERRIDE"
                             /\ t.amount # 0
                             /\ t.amount # loc[w].res

\* C21: a record_leave or edit_leave request whose date_to lies before its
\* date_from is refused: no such request has written a leave record or a
\* transaction.
C21_InvalidDateRangeRejected ==
    \A w \in Workers :
        (/\ loc[w].op \in {"record", "edit_leave"}
         /\ DateLT(loc[w].dto, loc[w].dfrom))
        => /\ pc[w] # "done"
           /\ leaves = loc[w].lpre
           /\ ledger = loc[w].pre

\* C22: once a promotion and the balance lookups that ran beside it have all
\* completed, the employee has one accrual per period and each accrual holds
\* the rate the switchover rule gives its month.
C22_RecalcSerializedWithCatchUp ==
    \A w \in Workers :
        (/\ pc[w] = "done"
         /\ loc[w].op = "promote"
         /\ \A v \in Workers : pc[v] \in {"idle", "done"})
        => LET e == loc[w].e
               sw == Switchover(loc[w].pdate)
           IN /\ OnePerPeriod(ledger, e)
              /\ \A t \in AccrualsOf(ledger, e) :
                    t.amount = IF PeriodIdx(t.period) < MonthIdx(sw)
                               THEN Round2(loc[w].old)
                               ELSE Round2(loc[w].new)

\* a transaction without its amount
Identity(t) == [t EXCEPT !.amount = 0]

\* C23: edit_leave changes nothing in the ledger but the amount of the
\* LEAVE_TAKEN transaction linked to the record: that row keeps its id,
\* employee, type and reference_id, no row is added or removed, and every
\* other row is as it was.
C23_EditLeaveFrame ==
    \A w \in Workers :
        (pc[w] = "done" /\ loc[w].op = "edit_leave")
        => /\ {Identity(t) : t \in ledger} = {Identity(t) : t \in loc[w].pre}
           /\ Cardinality(ledger) = Cardinality(loc[w].pre)
           /\ Cardinality(TxOf(ledger, loc[w].e))
                = Cardinality(TxOf(loc[w].pre, loc[w].e))
           /\ \A t \in ledger \ loc[w].pre :
                 /\ t.type = "LEAVE_TAKEN"
                 /\ t.ref = loc[w].le.id
                 /\ t.emp = loc[w].e
           /\ Cardinality(ledger \ loc[w].pre) <= 1

\* the edit of a leave that was recorded with an override changed the
\* amount of its LEAVE_TAKEN row and left its OVERRIDE row alone
C23_Witness ==
    \E w \in Workers :
        /\ pc[w] = "done"
        /\ loc[w].op = "edit_leave"
        /\ \E t \in ledger \ loc[w].pre, u \in loc[w].pre \ ledger :
              /\ t.id = u.id
              /\ t.amount # u.amount
              /\ t.amount < 0
              /\ u.amount < 0
        /\ \E t \in ledger \cap loc[w].pre :
              t.type = "OVERRIDE" /\ t.ref = loc[w].le.id

\* C24: no MANUAL_OVERRIDE transaction of amount 0 is in the ledger: a
\* manual balance equal to the current balance books nothing, whether it
\* comes from the employee edit or from the import.
C24_NoZeroManualOverride ==
    \A t \in ledger : t.type = "MANUAL_OVERRIDE" => t.amount # 0

\* C25: a request whose accrual catch-up failed, in the month walk or at the
\* commit, leaves none of the accruals of that catch-up in the committed
\* ledger.
C25_FailedCatchUpRolledBack ==
    \A w \in Workers :
        (/\ loc[w].op \in {"balance", "edit"}
         /\ loc[w].failed \in {"flush", "query", "commit"})
        => AccrualsOf(ledger, loc[w].e) = AccrualsOf(loc[w].pre, loc[w].e)

\* C26: a catch-up run on date today for an employee with status left and
\* no left_date creates no accrual for today's month or a later month, and
\* once it has completed every month from the hire month to the month
\* before today's month has its accrual.
C26_LeftWithoutDateUsesToday ==
    \A w \in Workers :
        (/\ loc[w].op = "balance"
         /\ loc[w].status = "left"
         /\ emp[loc[w].e].left_date = NoDate
         /\ loc[w].hire # NoDate)
        => /\ \A t \in sess[w].adds :
                 PeriodIdx(t.period) < MonthIdx(loc[w].today)
           /\ (pc[w] = "done" /\ loc[w].failed = "no")
                => /\ \A t \in AccrualsOf(ledger \ loc[w].pre, loc[w].e) :
                         PeriodIdx(t.period) < MonthIdx(loc[w].today)
                   /\ \A i \in MonthIdx(loc[w].hire)
                                 .. (MonthIdx(loc[w].today) - 1) :
                         i \in PeriodIdxs(ledger, loc[w].e)

\* the first lookup for an employee who was set to left without a date: it
\* is made in a later month than the hire month and creates the accruals
\* up to the month before
C26_Witness ==
    \E w \in Workers :
        /\ pc[w] = "done"
        /\ loc[w].op = "balance"
        /\ loc[w].failed = "no"
        /\ loc[w].status = "left"
        /\ emp[loc[w].e].left_date = NoDate
        /\ loc[w].n0 = 0
        /\ Cardinality(AccrualsOf(ledger \ loc[w].pre, loc[w].e)) >= 2
        /\ PeriodIdxs(ledger, loc[w].e)
             = MonthIdx(loc[w].hire) .. (MonthIdx(loc[w].today) - 1)

\* C27: for an employee whose status was set to left, without a left_date,
\* in the month of StartDate and who has had a balance lookup in that month
\* since (the ledger holds the accruals from the hire month to the month
\* before and no other), a lookup made later inserts no accrual and returns
\* the same balance.
C27_NoAccrualAfterLeftWithoutDate ==
    \A w \in Workers :
        (/\ pc[w] = "done"
         /\ loc[w].op = "balance"
         /\ loc[w].failed = "no"
         /\ loc[w].status = "left"
         /\ emp[loc[w].e].left_date = NoDate
         /\ loc[w].hire # NoDate
         /\ MonthIdx(loc[w].hire) < MonthIdx(StartDate)
         /\ PeriodIdxs(loc[w].pre, loc[w].e)
              = MonthIdx(loc[w].hire) .. (MonthIdx(StartDate) - 1))
        => /\ AccrualsOf(ledger, loc[w].e) = AccrualsOf(loc[w].pre, loc[w].e)
           /\ loc[w].res = SumAmounts(TxOf(loc[w].pre, loc[w].e))

\* C28: a promote request whose recalculation succeeded adds no
\* PROMOTION_ADJUST transaction: apart from the accruals, the only row it
\* adds is the PROMOTION transaction of amount 0.
C28_NoPromotionAdjust ==
    \A w \in Workers :
        (pc[w] = "done" /\ loc[w].op = "promote" /\ loc[w].failed = "no")
        => /\ NotAccrualOf(ledger, loc[w].e) = NotAccrualOf(loc[w].pre, loc[w].e)
           /\ \A t \in ledger \ loc[w].pre : t.type # "PROMOTION_ADJUST"
           /\ \E t \in loc[w].pre :
                 /\ t.type = "PROMOTION"
                 /\ t.amount = 0
                 /\ t.emp = loc[w].e

\* C29: once an employee has been promoted from InitRate with the date
\* 2024-01-15, whenever no request is in progress every accrual of a month
\* before the switchover month holds the old rate and every accrual of the
\* switchover month or a later month holds the new rate.
C29_ForwardDatedRatePerMonth ==
    \A e \in Staff, pd \in ForwardPromoDates :
        (AllIdle /\ \E t \in ledger : t.emp = e /\ t.type = "PROMOTION")
        => \A t \in AccrualsOf(ledger, e) :
              t.amount = IF PeriodIdx(t.period) < MonthIdx(Switchover(pd))
                         THEN Round2(InitRate)
                         ELSE Round2(emp[e].accrual_rate)

\* date_from lies before the day six months after the hire date
WithinSixMonths(date_from, hire) ==
    \/ MonthIdx(date_from) < MonthIdx(hire) + 6
    \/ MonthIdx(date_from) = MonthIdx(hire) + 6 /\ date_from.d < hire.d

\* C30: a paid leave that starts within six months of the hire date is
\* recorded only for an operator with override permission, and then with
\* one LEAVE_TAKEN transaction of minus the day-count and one OVERRIDE
\* transaction of amount 0, both referring to the record; any other leave
\* is recorded with its LEAVE_TAKEN transaction alone; a refused request
\* writes nothing.
C30_SixMonthRule ==
    \A w \in Workers :
        /\ (pc[w] = "done" /\ loc[w].op = "record" /\ loc[w].failed = "no")
           => LET le == loc[w].le
                  within == /\ le.lt = 1
                            /\ WithinSixMonths(loc[w].dfrom,
                                               emp[le.emp].hire_date)
                  added == ledger \ loc[w].pre
                  taken == {t \in added : t.type = "LEAVE_TAKEN"}
                  over == {t \in added : t.type = "OVERRIDE"}
              IN /\ within => loc[w].role \in {"admin_master", "developer"}
                 /\ leaves = loc[w].lpre \cup {le}
                 /\ added = taken \cup over
                 /\ Cardinality(taken) = 1
                 /\ \A t \in taken : /\ t.ref = le.id
                                      /\ t.emp = le.emp
                                      /\ le.lt = 1 => t.amount * 10 = -le.days
                 /\ Cardinality(over) = IF within THEN 1 ELSE 0
                 /\ \A t \in over : /\ t.ref = le.id
                                     /\ t.emp = le.emp
                                     /\ t.amount = 0
        /\ (pc[w] = "done" /\ loc[w].op = "record_rejected")
           => /\ ledger = loc[w].pre
              /\ leaves = loc[w].lpre

\* a paid leave within the first six months, recorded by an operator with
\* override permission
C30_Witness ==
    \E w \in Workers :
        /\ pc[w] = "done"
        /\ loc[w].op = "record"
        /\ loc[w].le.lt = 1
        /\ WithinSixMonths(loc[w].dfrom, emp[loc[w].e].hire_date)
        /\ loc[w].role = "admin_master"
        /\ \E t \in ledger \ loc[w].pre :
              /\ t.type = "LEAVE_TAKEN"
              /\ t.amount < 0
              /\ t.ref = loc[w].le.id
        /\ \E t \in ledger \ loc[w].pre :
              /\ t.type = "OVERRIDE"
              /\ t.amount = 0
              /\ t.ref = loc[w].le.id

====
